---- MODULE Spec2Model ----
(***************************************************************************)
(* Model of HdfsRegistry (src/lib.rs): endpoint resolution (get_namenode), *)
(* the canonical key (NNScheme::to_string) and the connection cache (get). *)
(* Strings are sequences of one-character strings, so that parsing and     *)
(* formatting are computed and not assumed.                                *)
(***************************************************************************)
EXTENDS Integers, Sequences, FiniteSets, TLC

(***************************************************************************)
(* Bounds of the model.                                                    *)
(***************************************************************************)
NThreads == 2
MaxCalls == 2

Threads == 1..NThreads

(***************************************************************************)
(* Characters and strings.                                                 *)
(***************************************************************************)
LowerAlpha == <<"a","b","c","d","e","f","g","h","i","j","k","l","m",
                "n","o","p","q","r","s","t","u","v","w","x","y","z">>
UpperAlpha == <<"A","B","C","D","E","F","G","H","I","J","K","L","M",
                "N","O","P","Q","R","S","T","U","V","W","X","Y","Z">>
Digits == <<"0","1","2","3","4","5","6","7","8","9">>

Range(s) == {s[i] : i \in DOMAIN s}

IsLower(c) == c \in Range(LowerAlpha)
IsUpper(c) == c \in Range(UpperAlpha)
IsAlpha(c) == IsLower(c) \/ IsUpper(c)
IsDigit(c) == c \in Range(Digits)

\* char::to_ascii_lowercase
ToLower(c) ==
    IF IsUpper(c) THEN LowerAlpha[CHOOSE i \in DOMAIN UpperAlpha : UpperAlpha[i] = c]
    ELSE c

LowerStr(s) == [i \in DOMAIN s |-> ToLower(s[i])]

DigitVal(c) == (CHOOSE i \in DOMAIN Digits : Digits[i] = c) - 1

\* value of a string of decimal digits
RECURSIVE DecValue(_)
DecValue(s) ==
    IF s = <<>> THEN 0
    ELSE 10 * DecValue(SubSeq(s, 1, Len(s) - 1)) + DigitVal(s[Len(s)])

\* Display of an unsigned integer: decimal, no leading zeros
RECURSIVE DecString(_)
DecString(n) ==
    IF n < 10 THEN <<Digits[n + 1]>>
    ELSE DecString(n \div 10) \o <<Digits[(n % 10) + 1]>>

\* index of the first character of s that is in set cs, or Len(s)+1
FirstIn(s, cs) ==
    IF \E i \in DOMAIN s : s[i] \in cs
    THEN CHOOSE i \in DOMAIN s : s[i] \in cs /\ \A j \in 1..(i - 1) : s[j] \notin cs
    ELSE Len(s) + 1

StartsWith(s, p) == Len(s) >= Len(p) /\ SubSeq(s, 1, Len(p)) = p

Tail2(s, n) == SubSeq(s, n + 1, Len(s))


(***************************************************************************)
(* Url::parse of the url crate, for the grammar                            *)
(*   scheme ":" [ "//" [ userinfo "@" ] host [ ":" port ] ] rest           *)
(* (no IPv6 literal, no percent-encoding, no surrounding white space).     *)
(* A parsed Url is [ok, scheme, host, port]; host = <<>> is Url::host()    *)
(* == None and port = NoPort is Url::port() == None.                       *)
(***************************************************************************)
NoPort == -1
U16Max == 65535

S_file  == <<"f","i","l","e">>
S_http  == <<"h","t","t","p">>
S_https == <<"h","t","t","p","s">>
S_ws    == <<"w","s">>
S_wss   == <<"w","s","s">>
S_ftp   == <<"f","t","p">>

\* static LOCAL_FS_SCHEME: &str = "file";
LOCAL_FS_SCHEME == S_file

\* the schemes the URL standard calls special, and their default ports
IsSpecial(scheme) == scheme \in {S_file, S_http, S_https, S_ws, S_wss, S_ftp}

DefaultPort(scheme) ==
    CASE scheme \in {S_http, S_ws}   -> 80
      [] scheme \in {S_https, S_wss} -> 443
      [] scheme = S_ftp              -> 21
      [] OTHER                       -> NoPort

IsSchemeChar(c) == IsAlpha(c) \/ IsDigit(c) \/ c \in {"+", "-", "."}

\* forbidden host code points
ForbiddenHost == {" ", "#", "/", ":", "<", ">", "?", "@", "[", "\\", "]", "^", "|"}

AuthorityEnd == {"/", "?", "#"}

UrlErr == [ok |-> FALSE, scheme |-> <<>>, host |-> <<>>, port |-> NoPort]

\* the parser's position: which component it reads, and the text read so far
\* of the scheme, the host and the port
Scan0 == [state |-> "scheme start", scheme |-> <<>>, host |-> <<>>,
          colon |-> FALSE, port |-> <<>>]

\* the parser, one character at a time; i = Len(s) + 1 is the end of input
RECURSIVE Scan(_, _, _)
Scan(s, i, u) ==
    IF u.state \in {"end", "fail"} THEN u
    ELSE IF u.state = "scheme start"
    THEN IF i <= Len(s) /\ IsAlpha(s[i])
         THEN Scan(s, i + 1, [u EXCEPT !.state = "scheme", !.scheme = <<ToLower(s[i])>>])
         ELSE [u EXCEPT !.state = "fail"]
    ELSE IF u.state = "scheme"
    THEN IF i <= Len(s) /\ IsSchemeChar(s[i])
         THEN Scan(s, i + 1, [u EXCEPT !.scheme = Append(@, ToLower(s[i]))])
         ELSE IF i <= Len(s) /\ s[i] = ":"
         THEN Scan(s, i + 1, [u EXCEPT !.state =
                                IF u.scheme = S_file THEN "file slashes"
                                ELSE IF IsSpecial(u.scheme) THEN "special slashes"
                                ELSE "slashes"])
         ELSE [u EXCEPT !.state = "fail"]
    ELSE IF u.state = "special slashes"
    THEN IF i <= Len(s) /\ s[i] \in {"/", "\\"}
         THEN Scan(s, i + 1, u)
         ELSE Scan(s, i, [u EXCEPT !.state = "host"])
    ELSE IF u.state \in {"slashes", "file slashes"}
    THEN IF i + 1 <= Len(s) /\ s[i] = "/" /\ s[i + 1] = "/"
         THEN Scan(s, i + 2, [u EXCEPT !.state =
                                IF u.state = "slashes" THEN "host" ELSE "file host"])
         ELSE [u EXCEPT !.state = "end"]
    ELSE IF i > Len(s) \/ s[i] \in AuthorityEnd
    THEN [u EXCEPT !.state = "end"]
    ELSE IF u.state = "file host"
    THEN Scan(s, i + 1, [u EXCEPT !.host = Append(@, s[i])])
    ELSE IF s[i] = "@"
    THEN Scan(s, i + 1, [u EXCEPT !.state = "host", !.host = <<>>,
                                  !.colon = FALSE, !.port = <<>>])
    ELSE IF u.state = "host"
    THEN IF s[i] = ":"
         THEN Scan(s, i + 1, [u EXCEPT !.state = "port", !.colon = TRUE])
         ELSE Scan(s, i + 1, [u EXCEPT !.host = Append(@, s[i])])
    ELSE Scan(s, i + 1, [u EXCEPT !.port = Append(@, s[i])])

\* the Url the parser builds from what it read, or the error it reports
UrlOf(u) ==
    IF u.state = "fail" THEN UrlErr                    \* RelativeUrlWithoutBase
    ELSE IF \E c \in Range(u.host) : c \in ForbiddenHost
    THEN UrlErr                                        \* InvalidDomainCharacter
    ELSE IF u.scheme = S_file
    THEN [ok |-> TRUE, scheme |-> u.scheme, host |-> LowerStr(u.host), port |-> NoPort]
    ELSE IF u.host = <<>> /\ (u.colon \/ IsSpecial(u.scheme))
    THEN UrlErr                                        \* EmptyHost
    ELSE IF \E c \in Range(u.port) : ~IsDigit(c)
    THEN UrlErr                                        \* InvalidPort
    ELSE IF DecValue(u.port) > U16Max
    THEN UrlErr                                        \* InvalidPort
    ELSE [ok     |-> TRUE,
          scheme |-> u.scheme,
          host   |-> IF IsSpecial(u.scheme) THEN LowerStr(u.host) ELSE u.host,
          port   |-> IF u.port = <<>> \/ DecValue(u.port) = DefaultPort(u.scheme)
                     THEN NoPort ELSE DecValue(u.port)]

Url_parse(path) == UrlOf(Scan(path, 1, Scan0))

(***************************************************************************)
(* The values of the program.                                              *)
(***************************************************************************)
\* enum NNScheme { Local, Remote(HostPort) }, struct HostPort { host, port: u16 }
Local == [tag |-> "Local", host |-> <<>>, port |-> 0]
Remote(host, port) == [tag |-> "Remote", host |-> host, port |-> port]

\* a key that leaves the port out
to_string_without_port(nn) ==
    IF nn.tag = "Local" THEN <<"f","i","l","e",":","/","/","/">>
    ELSE nn.host

\* impl ToString for NNScheme
to_string(nn) ==
    IF nn.tag = "Local" THEN <<"f","i","l","e",":","/","/","/">>
    ELSE nn.host \o <<":">> \o DecString(nn.port)

\* HdfsErr::InvalidUrl(String), HdfsErr::CannotConnectToNameNode(String)
InvalidUrl(s) == [kind |-> "InvalidUrl", arg |-> s]
\* the wrong variant for a failed connect
CannotConnect_as_InvalidUrl(s) == [kind |-> "InvalidUrl", arg |-> s]
CannotConnectToNameNode(s) == [kind |-> "CannotConnectToNameNode", arg |-> s]
NoErr == [kind |-> "none", arg |-> <<>>]

\* *const hdfsFS: 0 is the null pointer, 1, 2, ... are live native connections
NULL == 0
\* a null check that never fires
is_null_never(fs) == FALSE
is_null(fs) == fs = NULL

\* HdfsFs::new(url, raw), and the copy HdfsFs::clone makes of a handle
HdfsFs_new(url, raw) == [url |-> url, raw |-> raw]
HdfsFs_clone(fs) == [url |-> fs.url, raw |-> fs.raw]
NoFs == [url |-> <<>>, raw |-> NULL]

\* Result<T, HdfsErr>
Ok(v) == [ok |-> TRUE, val |-> v, err |-> NoErr]
ErrNN(e) == [ok |-> FALSE, val |-> Local, err |-> e]
ErrFs(e) == [ok |-> FALSE, val |-> NoFs, err |-> e]
NoResult == [ok |-> FALSE, val |-> NoFs, err |-> NoErr]

\* a resolver whose error carries the normalised text and not the input
get_namenode_normalised_error(path) ==
    LET url == Url_parse(path)
    IN  IF url.ok
        THEN IF url.scheme = LOCAL_FS_SCHEME
             THEN Ok(Local)
             ELSE IF url.host # <<>> /\ url.port # NoPort
             THEN Ok(Remote(url.scheme \o <<":","/","/">> \o url.host, url.port))
             ELSE ErrNN(InvalidUrl(LowerStr(path)))
        ELSE ErrNN(InvalidUrl(LowerStr(path)))

\* a resolver that falls back to the namenode's usual port 8020
get_namenode_default_port(path) ==
    LET url == Url_parse(path)
    IN  IF url.ok
        THEN IF url.scheme = LOCAL_FS_SCHEME
             THEN Ok(Local)
             ELSE IF url.host # <<>>
             THEN Ok(Remote(url.scheme \o <<":","/","/">> \o url.host,
                            IF url.port # NoPort THEN url.port ELSE 8020))
             ELSE ErrNN(InvalidUrl(path))
        ELSE ErrNN(InvalidUrl(path))

\* a resolver that asks for host and port before it looks at the scheme
get_namenode_hostport_first(path) ==
    LET url == Url_parse(path)
    IN  IF url.ok
        THEN IF url.host # <<>> /\ url.port # NoPort
             THEN Ok(Remote(url.scheme \o <<":","/","/">> \o url.host, url.port))
             ELSE IF url.scheme = LOCAL_FS_SCHEME
             THEN IF url.host = <<>> THEN Ok(Local) ELSE ErrNN(InvalidUrl(path))
             ELSE ErrNN(InvalidUrl(path))
        ELSE ErrNN(InvalidUrl(path))

\* fn get_namenode(&self, path: &str) -> Result<NNScheme, HdfsErr>
get_namenode(path) ==
    LET url == Url_parse(path)
    IN  IF url.ok
        THEN IF url.scheme = LOCAL_FS_SCHEME
             THEN Ok(Local)
             ELSE IF url.host # <<>> /\ url.port # NoPort
             THEN Ok(Remote(url.scheme \o <<":","/","/">> \o url.host, url.port))
             ELSE ErrNN(InvalidUrl(path))
        ELSE ErrNN(InvalidUrl(path))

\* HashMap::insert(key, value): the new value replaces the one already there
or_insert_replacing(map, key, value) ==
    [k \in DOMAIN map \cup {key} |-> IF k = key THEN value ELSE map[k]]

\* HashMap::entry(key).or_insert(value): the value already there wins
or_insert(map, key, value) ==
    IF key \in DOMAIN map THEN map
    ELSE [k \in DOMAIN map \cup {key} |-> IF k = key THEN value ELSE map[k]]

(***************************************************************************)
(* The paths callers pass to get.                                          *)
(***************************************************************************)
\* "hdfs://localhost:9000/users/test"
P_example == <<"h","d","f","s",":","/","/","l","o","c","a","l","h","o","s","t",":","9","0","0","0","/","u","s","e","r","s","/","t","e","s","t">>
\* "hdfs://localhost:9000"
P_bare == <<"h","d","f","s",":","/","/","l","o","c","a","l","h","o","s","t",":","9","0","0","0">>
\* "HDFS://localhost:09000/a?b#c"
P_upper == <<"H","D","F","S",":","/","/","l","o","c","a","l","h","o","s","t",":","0","9","0","0","0","/","a","?","b","#","c">>
\* "hdfs://localhost"
P_noport == <<"h","d","f","s",":","/","/","l","o","c","a","l","h","o","s","t">>
\* "hdfs://nn2:9000/users/test"
P_nn2 == <<"h","d","f","s",":","/","/","n","n","2",":","9","0","0","0","/","u","s","e","r","s","/","t","e","s","t">>
\* "hdfs://localhost:9001/"
P_port2 == <<"h","d","f","s",":","/","/","l","o","c","a","l","h","o","s","t",":","9","0","0","1","/">>
\* "viewfs://localhost:9000/x"
P_viewfs == <<"v","i","e","w","f","s",":","/","/","l","o","c","a","l","h","o","s","t",":","9","0","0","0","/","x">>
\* "file:///tmp/x"
P_file_tmp == <<"f","i","l","e",":","/","/","/","t","m","p","/","x">>
\* "file:///anything/else"
P_file_else == <<"f","i","l","e",":","/","/","/","a","n","y","t","h","i","n","g","/","e","l","s","e">>
\* "FILE://nn2/x"
P_file_host == <<"F","I","L","E",":","/","/","n","n","2","/","x">>
\* "/users/test"
P_relative == <<"/","u","s","e","r","s","/","t","e","s","t">>
\* "hdfs://localhost:70000/x"
P_bigport == <<"h","d","f","s",":","/","/","l","o","c","a","l","h","o","s","t",":","7","0","0","0","0","/","x">>
\* "http://localhost:80/x"
P_http80 == <<"h","t","t","p",":","/","/","l","o","c","a","l","h","o","s","t",":","8","0","/","x">>
\* "HDFS:///users/test"
P_nohost == <<"H","D","F","S",":","/","/","/","u","s","e","r","s","/","t","e","s","t">>
\* "not a url"
P_words == <<"n","o","t"," ","a"," ","u","r","l">>
\* "hdfs://:9000/x"
P_emptyhost == <<"h","d","f","s",":","/","/",":","9","0","0","0","/","x">>

Paths ==
    { P_example, P_bare, P_upper, P_noport, P_nn2, P_port2, P_viewfs,
      P_file_tmp, P_file_else, P_file_host, P_relative, P_bigport,
      P_http80, P_nohost, P_words, P_emptyhost }

\* the paths the concurrent callers of Spec draw from
SharedPaths == { P_example, P_upper, P_nn2, P_file_tmp, P_noport, P_words }

(***************************************************************************)
(* State.                                                                  *)
(***************************************************************************)
VARIABLES
    all_fs,       \* the HashMap<String, HdfsFs> behind the Arc<Mutex<..>>
    lock,         \* the thread holding the MutexGuard, 0 when the mutex is free
    pc,           \* where each thread is in get
    path,         \* the argument of each thread's get
    host_port,    \* get's local host_port
    hdfs_fs,      \* get's local hdfs_fs, the pointer hdfsBuilderConnect returned
    result,       \* what get returned to the caller
    connect_log,  \* the calls of hdfsBuilderConnect made so far, in order
    call_id,      \* the number of each thread's current call of get
    hit,          \* whether the key was in the map when the thread looked it up
    map_before,   \* the map as the thread found it on taking the lock
    map_after,    \* the map as the thread left it on dropping the guard
    waiting,      \* the threads blocked in lock() when the thread took the lock
    ncalls,       \* calls of get made so far
    reg,          \* the registry (&self) each thread's get is called on
    own_fs,       \* the map of the registry built by HdfsRegistry::new() next to all_fs
    own_lock      \* the holder of that map's MutexGuard, 0 when its mutex is free

vars == <<all_fs, lock, pc, path, host_port, hdfs_fs, result, connect_log,
          call_id, hit, map_before, map_after, waiting, ncalls, reg, own_fs, own_lock>>

EmptyMap == [k \in {} |-> NoFs]

\* The registries: R_first and R_second are HdfsRegistry::new_from(fs.clone())
\* over one Arc<Mutex<HashMap>>, the map all_fs (a registry built by new() and
\* used alone is R_first over an empty all_fs); R_own is a further
\* HdfsRegistry::new(), with a map of its own.
R_first == "first"
R_second == "second"
R_own == "own"
Registries == {R_first, R_second, R_own}

\* whether a registry's all_fs field points to the shared map
OnShared(r) == r \in {R_first, R_second}

\* self.all_fs of the registry a thread is in, and the holder of its mutex
MapOf(t) == IF OnShared(reg[t]) THEN all_fs ELSE own_fs
LockOf(t) == IF OnShared(reg[t]) THEN lock ELSE own_lock

\* the pointer a successful hdfsBuilderConnect returns: a connection not seen before
FreshFs == 1 + Cardinality({i \in DOMAIN connect_log : connect_log[i].fs # NULL})

\* HdfsRegistry::new(), and no thread inside get
Init ==
    /\ all_fs = EmptyMap
    /\ lock = 0
    /\ pc = [t \in Threads |-> "idle"]
    /\ path = [t \in Threads |-> <<>>]
    /\ host_port = [t \in Threads |-> Local]
    /\ hdfs_fs = [t \in Threads |-> NULL]
    /\ result = [t \in Threads |-> NoResult]
    /\ connect_log = <<>>
    /\ call_id = [t \in Threads |-> 0]
    /\ hit = [t \in Threads |-> FALSE]
    /\ map_before = [t \in Threads |-> EmptyMap]
    /\ map_after = [t \in Threads |-> EmptyMap]
    /\ waiting = [t \in Threads |-> {}]
    /\ ncalls = 0
    /\ reg = [t \in Threads |-> R_first]
    /\ own_fs = EmptyMap
    /\ own_lock = 0

\* a get that resolves its path only once the mutex is free
GetOn_behind_the_lock(t, rg, p) ==
    /\ pc[t] = "idle"
    /\ ncalls < MaxCalls
    /\ (IF OnShared(rg) THEN lock ELSE own_lock) = 0
    /\ ncalls' = ncalls + 1
    /\ call_id' = [call_id EXCEPT ![t] = ncalls + 1]
    /\ reg' = [reg EXCEPT ![t] = rg]
    /\ path' = [path EXCEPT ![t] = p]
    /\ LET r == get_namenode(p)
       IN  IF r.ok
           THEN /\ host_port' = [host_port EXCEPT ![t] = r.val]
                /\ result' = [result EXCEPT ![t] = NoResult]
                /\ pc' = [pc EXCEPT ![t] = "resolved"]
           ELSE /\ host_port' = [host_port EXCEPT ![t] = Local]
                /\ result' = [result EXCEPT ![t] = ErrFs(r.err)]
                /\ pc' = [pc EXCEPT ![t] = "done"]
    /\ UNCHANGED <<all_fs, lock, hdfs_fs, connect_log, hit, map_before, map_after, waiting,
                   own_fs, own_lock>>

\* r.get(path), line 102: let host_port = self.get_namenode(path)?;
GetOn(t, rg, p) ==
    /\ pc[t] = "idle"
    /\ ncalls < MaxCalls
    /\ ncalls' = ncalls + 1
    /\ call_id' = [call_id EXCEPT ![t] = ncalls + 1]
    /\ reg' = [reg EXCEPT ![t] = rg]
    /\ path' = [path EXCEPT ![t] = p]
    /\ LET r == get_namenode(p)
       IN  IF r.ok
           THEN /\ host_port' = [host_port EXCEPT ![t] = r.val]
                /\ result' = [result EXCEPT ![t] = NoResult]
                /\ pc' = [pc EXCEPT ![t] = "resolved"]
           ELSE /\ host_port' = [host_port EXCEPT ![t] = Local]
                /\ result' = [result EXCEPT ![t] = ErrFs(r.err)]
                /\ pc' = [pc EXCEPT ![t] = "done"]
    /\ UNCHANGED <<all_fs, lock, hdfs_fs, connect_log, hit, map_before, map_after, waiting,
                   own_fs, own_lock>>

\* get(path) on the one registry of Spec and SeqSpec
Call(t, p) == GetOn(t, R_first, p)

\* a lookup that does not wait for the mutex
Lock_without_mutex(t) ==
    /\ pc[t] = "resolved"
    /\ lock' = IF OnShared(reg[t]) THEN t ELSE lock
    /\ own_lock' = IF OnShared(reg[t]) THEN own_lock ELSE t
    /\ hit' = [hit EXCEPT ![t] = to_string(host_port[t]) \in DOMAIN MapOf(t)]
    /\ map_before' = [map_before EXCEPT ![t] = MapOf(t)]
    /\ waiting' = [waiting EXCEPT ![t] = {}]
    /\ pc' = [pc EXCEPT ![t] = "locked"]
    /\ UNCHANGED <<all_fs, path, host_port, hdfs_fs, result, connect_log, call_id,
                   map_after, ncalls, reg, own_fs>>
\* line 104 and the receiver of line 106:
\* let mut map = self.all_fs.lock().unwrap();  map.entry(host_port.to_string())
Lock(t) ==
    /\ pc[t] = "resolved"
    /\ LockOf(t) = 0
    /\ lock' = IF OnShared(reg[t]) THEN t ELSE lock
    /\ own_lock' = IF OnShared(reg[t]) THEN own_lock ELSE t
    /\ hit' = [hit EXCEPT ![t] = to_string(host_port[t]) \in DOMAIN MapOf(t)]
    /\ map_before' = [map_before EXCEPT ![t] = MapOf(t)]
    /\ waiting' = [waiting EXCEPT ![t] =
                     {u \in Threads : pc[u] = "resolved" /\ u # t
                                      /\ OnShared(reg[u]) = OnShared(reg[t])}]
    /\ pc' = [pc EXCEPT ![t] = "locked"]
    /\ UNCHANGED <<all_fs, path, host_port, hdfs_fs, result, connect_log, call_id,
                   map_after, ncalls, reg, own_fs>>

\* lines 107-118, the argument of or_insert, evaluated before or_insert is
\* called: the builder is set up and hdfsBuilderConnect returns a null pointer
\* or a new connection
BuilderConnect(t) ==
    /\ pc[t] = "locked"
    /\ \E fs \in {NULL, FreshFs} :
        /\ connect_log' = Append(connect_log,
                                 [call |-> call_id[t], nn |-> host_port[t], fs |-> fs])
        /\ hdfs_fs' = [hdfs_fs EXCEPT ![t] = fs]
    /\ pc' = [pc EXCEPT ![t] = "connected"]
    /\ UNCHANGED <<all_fs, lock, path, host_port, result, call_id, hit, map_before,
                   map_after, waiting, ncalls, reg, own_fs, own_lock>>

\* a get whose early return at line 121 leaves the mutex locked
Finish_keeping_the_lock(t) ==
    /\ pc[t] = "connected"
    /\ LET key == to_string(host_port[t])
           map == IF is_null(hdfs_fs[t]) THEN MapOf(t)
                  ELSE or_insert(MapOf(t), key, HdfsFs_new(key, hdfs_fs[t]))
       IN  /\ result' = [result EXCEPT ![t] =
                           IF is_null(hdfs_fs[t])
                           THEN ErrFs(CannotConnectToNameNode(key))
                           ELSE Ok(HdfsFs_clone(map[key]))]
           /\ all_fs' = IF OnShared(reg[t]) THEN map ELSE all_fs
           /\ own_fs' = IF OnShared(reg[t]) THEN own_fs ELSE map
           /\ map_after' = [map_after EXCEPT ![t] = map]
    /\ lock' = IF OnShared(reg[t]) /\ ~is_null(hdfs_fs[t]) THEN 0 ELSE lock
    /\ own_lock' = IF OnShared(reg[t]) \/ is_null(hdfs_fs[t]) THEN own_lock ELSE 0
    /\ pc' = [pc EXCEPT ![t] = "done"]
    /\ UNCHANGED <<path, host_port, hdfs_fs, connect_log, call_id, hit, map_before,
                   waiting, ncalls, reg>>

\* lines 120-127: the null check, or_insert, entry.clone(), and the guard dropped
Finish(t) ==
    /\ pc[t] = "connected"
    /\ LET key == to_string(host_port[t])
           map == IF is_null(hdfs_fs[t]) THEN MapOf(t)
                  ELSE or_insert(MapOf(t), key, HdfsFs_new(key, hdfs_fs[t]))
       IN  /\ result' = [result EXCEPT ![t] =
                           IF is_null(hdfs_fs[t])
                           THEN ErrFs(CannotConnectToNameNode(key))
                           ELSE Ok(HdfsFs_clone(map[key]))]
           /\ all_fs' = IF OnShared(reg[t]) THEN map ELSE all_fs
           /\ own_fs' = IF OnShared(reg[t]) THEN own_fs ELSE map
           /\ map_after' = [map_after EXCEPT ![t] = map]
    /\ lock' = IF OnShared(reg[t]) THEN 0 ELSE lock
    /\ own_lock' = IF OnShared(reg[t]) THEN own_lock ELSE 0
    /\ pc' = [pc EXCEPT ![t] = "done"]
    /\ UNCHANGED <<path, host_port, hdfs_fs, connect_log, call_id, hit, map_before,
                   waiting, ncalls, reg>>

\* the caller has the result, get's locals are gone, and it may call get again
Return(t) ==
    /\ pc[t] = "done"
    /\ pc' = [pc EXCEPT ![t] = "idle"]
    /\ path' = [path EXCEPT ![t] = <<>>]
    /\ host_port' = [host_port EXCEPT ![t] = Local]
    /\ hdfs_fs' = [hdfs_fs EXCEPT ![t] = NULL]
    /\ result' = [result EXCEPT ![t] = NoResult]
    /\ call_id' = [call_id EXCEPT ![t] = 0]
    /\ hit' = [hit EXCEPT ![t] = FALSE]
    /\ map_before' = [map_before EXCEPT ![t] = EmptyMap]
    /\ map_after' = [map_after EXCEPT ![t] = EmptyMap]
    /\ waiting' = [waiting EXCEPT ![t] = {}]
    /\ reg' = [reg EXCEPT ![t] = R_first]
    /\ UNCHANGED <<all_fs, lock, connect_log, ncalls, own_fs, own_lock>>

Next ==
    \/ \E t \in Threads, p \in SharedPaths : Call(t, p)
    \/ \E t \in Threads : Lock(t)
    \/ \E t \in Threads : BuilderConnect(t)
    \/ \E t \in Threads : Finish(t)
    \/ \E t \in Threads : Return(t)

Spec == Init /\ [][Next]_vars

\* Callers of two endpoints and of a path that does not resolve, with the
\* scheduling C19 assumes: a thread that keeps finding the mutex
\* free gets it in the end (Lock), every hdfsBuilderConnect returns
\* (BuilderConnect), and a running thread goes on running (Finish)
LivePaths == { P_example, P_nn2, P_noport }

LiveNext ==
    \/ \E t \in Threads, p \in LivePaths : Call(t, p)
    \/ \E t \in Threads : Lock(t)
    \/ \E t \in Threads : BuilderConnect(t)
    \/ \E t \in Threads : Finish(t)
    \/ \E t \in Threads : Return(t)

FairSpec ==
    /\ Init /\ [][LiveNext]_vars
    /\ \A t \in Threads :
          /\ SF_vars(Lock(t))
          /\ WF_vars(BuilderConnect(t))
          /\ WF_vars(Finish(t))

\* one caller, calling get on every path of Paths
SeqNext ==
    \/ \E p \in Paths : Call(1, p)
    \/ Lock(1)
    \/ BuilderConnect(1)
    \/ Finish(1)
    \/ Return(1)

SeqSpec == Init /\ [][SeqNext]_vars

\* The map handed to new_from may hold entries already: the handle an earlier
\* get returned for the endpoint of P_example, made by a connect that is not
\* in connect_log.
InjectedFs == 9
InjectedMap == [k \in {to_string(get_namenode(P_example).val)} |-> HdfsFs_new(k, InjectedFs)]

\* lines 73-81: R_first and R_second are built by new_from over one map, which
\* is empty or InjectedMap; R_own is built by new()
RegInit ==
    /\ all_fs \in {EmptyMap, InjectedMap}
    /\ lock = 0
    /\ pc = [t \in Threads |-> "idle"]
    /\ path = [t \in Threads |-> <<>>]
    /\ host_port = [t \in Threads |-> Local]
    /\ hdfs_fs = [t \in Threads |-> NULL]
    /\ result = [t \in Threads |-> NoResult]
    /\ connect_log = <<>>
    /\ call_id = [t \in Threads |-> 0]
    /\ hit = [t \in Threads |-> FALSE]
    /\ map_before = [t \in Threads |-> EmptyMap]
    /\ map_after = [t \in Threads |-> EmptyMap]
    /\ waiting = [t \in Threads |-> {}]
    /\ ncalls = 0
    /\ reg = [t \in Threads |-> R_first]
    /\ own_fs = EmptyMap
    /\ own_lock = 0

RegPaths == { P_example, P_upper, P_nn2 }

\* callers calling get on any of the three registries
RegNext ==
    \/ \E t \in Threads, rg \in Registries, p \in RegPaths : GetOn(t, rg, p)
    \/ \E t \in Threads : Lock(t)
    \/ \E t \in Threads : BuilderConnect(t)
    \/ \E t \in Threads : Finish(t)
    \/ \E t \in Threads : Return(t)

RegSpec == RegInit /\ [][RegNext]_vars

(***************************************************************************)
(* What the claims speak of.                                               *)
(***************************************************************************)
\* what Url::parse and get_namenode make of each path (and of no path)
Parsed == [p \in Paths \cup {<<>>} |-> Url_parse(p)]
Resolved == [p \in Paths \cup {<<>>} |-> get_namenode(p)]

\* the canonical key of a path that resolves
KeyOf(p) == to_string(Resolved[p].val)

\* the key a thread that resolved its path looks up: host_port.to_string()
Key(t) == to_string(host_port[t])

\* the threads that are inside get or hold its result
InGet(t) == pc[t] # "idle"
\* the threads between the lookup of line 106 and the guard's drop
Inside(t) == pc[t] \in {"locked", "connected"}
Returned(t) == pc[t] = "done"

\* the hdfsBuilderConnect calls made by the thread's current call of get
ConnectsBy(t) == {i \in DOMAIN connect_log : connect_log[i].call = call_id[t]}

\* the hdfsBuilderConnect calls made for a key, and those of them that failed
ConnectsFor(k) == {i \in DOMAIN connect_log : to_string(connect_log[i].nn) = k}
FailedFor(k) == {i \in ConnectsFor(k) : connect_log[i].fs = NULL}

K_example == <<"h","d","f","s",":","/","/","l","o","c","a","l","h","o","s","t",":","9","0","0","0">>
K_local == <<"f","i","l","e",":","/","/","/">>

\* C1: when all threads call get at the same time for one key that is not
\* cached and every connect succeeds, hdfsBuilderConnect is called exactly once
\* and every thread's handle is that one connection.
C1_OneConnectForConcurrentGets ==
    \A t \in Threads :
        ( /\ Returned(t) /\ result[t].ok
          /\ ~hit[t]
          /\ waiting[t] = Threads \ {t}
          /\ \A u \in Threads : Returned(u) /\ result[u].ok /\ Key(u) = Key(t)
          /\ FailedFor(Key(t)) = {} )
        => /\ Cardinality(ConnectsFor(Key(t))) = 1
           /\ \A u \in Threads : result[u].val.raw = result[t].val.raw

\* C2: as long as no connect for a key has failed, hdfsBuilderConnect has been
\* called for that key at most once, however many gets asked for it.
C2_OneConnectPerKey ==
    \A i, j \in DOMAIN connect_log :
        ( /\ to_string(connect_log[i].nn) = to_string(connect_log[j].nn)
          /\ FailedFor(to_string(connect_log[i].nn)) = {} )
        => i = j

\* C3: a successful get returns the handle the map holds under the path's key,
\* so gets of paths with one key return one and the same native connection.
C3_SameKeySameConnection ==
    \A t \in Threads :
        (Returned(t) /\ result[t].ok)
        => /\ Key(t) \in DOMAIN all_fs
           /\ result[t].val = all_fs[Key(t)]
           /\ \A u \in Threads :
                (Returned(u) /\ result[u].ok /\ Key(u) = Key(t))
                => result[u].val.raw = result[t].val.raw

C3_Witness ==
    \E t, u \in Threads :
        /\ Returned(t) /\ result[t].ok /\ Returned(u) /\ result[u].ok
        /\ path[t] = P_example /\ path[u] = P_upper
        /\ result[t].val.raw = result[u].val.raw

\* C4: a get that finds its key in the map calls hdfsBuilderConnect not at all
\* and leaves the map as it found it.
C4_HitHasNoSideEffect ==
    \A t \in Threads :
        (Returned(t) /\ hit[t])
        => /\ ConnectsBy(t) = {}
           /\ map_after[t] = map_before[t]

\* C5: a get whose hdfsBuilderConnect returned null returns
\* CannotConnectToNameNode(key), leaves the map as it found it, and no longer
\* holds the lock.
C5_NullLeavesMapUnchanged ==
    \A t \in Threads :
        (Returned(t) /\ \E i \in ConnectsBy(t) : connect_log[i].fs = NULL)
        => /\ ~result[t].ok
           /\ result[t].err.kind = "CannotConnectToNameNode"
           /\ result[t].err.arg = Key(t)
           /\ map_after[t] = map_before[t]
           /\ lock # t

C5_Witness ==
    \E t \in Threads :
        /\ Returned(t) /\ path[t] = P_nn2
        /\ \E i \in ConnectsBy(t) : connect_log[i].fs = NULL
        /\ result[t].err.kind = "CannotConnectToNameNode"
        /\ DOMAIN map_after[t] = {K_example}

\* C6: a get for a key whose connect failed in an earlier get calls
\* hdfsBuilderConnect exactly once, and when that call succeeds the get returns
\* a live handle tagged with the key and the key is in the map.
C6_FailureNotRemembered ==
    \A t \in Threads :
        ( /\ Returned(t) /\ result[t].err.kind # "InvalidUrl"
          /\ \E i \in FailedFor(Key(t)) : connect_log[i].call < call_id[t] )
        => /\ Cardinality(ConnectsBy(t)) = 1
           /\ (\A i \in ConnectsBy(t) : connect_log[i].fs # NULL)
              => /\ result[t].ok
                 /\ result[t].val.raw # NULL
                 /\ result[t].val.url = Key(t)
                 /\ Key(t) \in DOMAIN all_fs
                 /\ all_fs[Key(t)] = result[t].val

C6_Witness ==
    \E t \in Threads :
        /\ Returned(t) /\ result[t].ok /\ ~hit[t]
        /\ \E i \in FailedFor(Key(t)) : connect_log[i].call < call_id[t]
        /\ all_fs[Key(t)].raw = 1

\* the text of a path's scheme, authority, host and port, cut out of the path
\* at its first ":", "//" and the next "/", "?" or "#"
SchemeText(p) == SubSeq(p, 1, FirstIn(p, {":"}) - 1)

AfterScheme(p) == Tail2(p, FirstIn(p, {":"}))

AuthorityText(p) ==
    LET rest == AfterScheme(p)
        r    == IF StartsWith(rest, <<"/", "/">>) THEN Tail2(rest, 2) ELSE <<>>
    IN  SubSeq(r, 1, FirstIn(r, AuthorityEnd) - 1)

HostText(p) == SubSeq(AuthorityText(p), 1, FirstIn(AuthorityText(p), {":"}) - 1)
PortText(p) == Tail2(AuthorityText(p), FirstIn(AuthorityText(p), {":"}))

\* the scheme, host and port a path spells out
SchemeOf(p) == LowerStr(SchemeText(p))
Parses(p) == Parsed[p].ok
HasHostAndPort(p) == HostText(p) # <<>> /\ PortText(p) # <<>>

\* C7: a get whose path does not resolve returns InvalidUrl with the path as
\* given, in one step that calls no hdfsBuilderConnect, takes no lock and
\* leaves the map alone.
C7_InvalidUrlPropagated ==
    [][ \A t \in Threads :
          (pc[t] = "idle" /\ pc'[t] # "idle" /\ ~Resolved[path'[t]].ok)
          => /\ pc'[t] = "done"
             /\ ~result'[t].ok
             /\ result'[t].err.kind = "InvalidUrl"
             /\ result'[t].err.arg = path'[t]
             /\ all_fs' = all_fs
             /\ connect_log' = connect_log
             /\ lock' = lock ]_vars

C7_Witness ==
    \E t \in Threads :
        /\ Returned(t) /\ path[t] = P_nohost
        /\ result[t].err.kind = "InvalidUrl" /\ result[t].err.arg = P_nohost
        /\ ConnectsBy(t) = {}
        /\ DOMAIN all_fs = {K_example}

\* C8, as claimed: get_namenode returns Remote exactly when the URL parses, its
\* scheme is not "file", and it spells out a host and a port.
C8_RemoteIffHostAndExplicitPort ==
    \A t \in Threads :
        InGet(t) =>
            ( (Resolved[path[t]].ok /\ Resolved[path[t]].val.tag = "Remote")
              <=> (Parses(path[t]) /\ SchemeOf(path[t]) # S_file /\ HasHostAndPort(path[t])) )

\* C8, amended: get_namenode returns Remote exactly when the URL parses, its
\* scheme is not "file", and it spells out a host and a port other than the
\* default port of its scheme; every other path that is not a file URL fails
\* with InvalidUrl(path); a Remote has host "{scheme}://{host}" and the port
\* spelled out, a u16, and the thread carries it on.
C8_RemoteIffHostAndKeptPort ==
    \A t \in Threads :
        InGet(t) =>
            LET p == path[t]
                r == Resolved[p]
                remote == /\ Parses(p) /\ SchemeOf(p) # S_file /\ HasHostAndPort(p)
                          /\ DecValue(PortText(p)) # DefaultPort(SchemeOf(p))
            IN  /\ (r.ok /\ r.val.tag = "Remote") <=> remote
                /\ (~remote /\ ~(Parses(p) /\ SchemeOf(p) = S_file))
                   => (~r.ok /\ r.err.kind = "InvalidUrl" /\ r.err.arg = p /\ Returned(t))
                /\ remote
                   => /\ r.val.host = SchemeOf(p) \o <<":","/","/">> \o
                                      (IF IsSpecial(SchemeOf(p)) THEN LowerStr(HostText(p))
                                       ELSE HostText(p))
                      /\ r.val.port = DecValue(PortText(p))
                      /\ r.val.port \in 0..U16Max
                      /\ host_port[t] = r.val

C8_Witness ==
    \E t \in Threads :
        /\ pc[t] = "resolved" /\ path[t] = P_upper
        /\ host_port[t].tag = "Remote"
        /\ host_port[t].port = 9000
        /\ host_port[t].host = <<"h","d","f","s",":","/","/","l","o","c","a","l","h","o","s","t">>

\* C9: every path that parses with scheme "file" resolves to Local whatever
\* its host and path, its key is "file:///", and a successful get of it
\* returns the one handle the map holds under "file:///".
C9_FileIsLocal ==
    \A t \in Threads :
        (InGet(t) /\ Parses(path[t]) /\ SchemeOf(path[t]) = S_file)
        => /\ Resolved[path[t]].ok
           /\ Resolved[path[t]].val.tag = "Local"
           /\ KeyOf(path[t]) = K_local
           /\ ~Returned(t) => host_port[t].tag = "Local"
           /\ (Returned(t) /\ result[t].ok)
              => /\ K_local \in DOMAIN all_fs
                 /\ result[t].val = all_fs[K_local]
                 /\ result[t].val.url = K_local

C9_Witness ==
    \E t \in Threads :
        /\ Returned(t) /\ result[t].ok /\ hit[t]
        /\ path[t] = P_file_host
        /\ result[t].val = all_fs[K_local]

\* whether a path spells its scheme in lower case and its port without
\* leading zeros
Normalised(p) ==
    /\ SchemeText(p) = SchemeOf(p)
    /\ PortText(p) = DecString(DecValue(PortText(p)))

\* C10: a successful get of a path scheme://host:port/... whose scheme is not
\* "file" returns a handle whose url is "scheme://host:port" (the scheme in
\* lower case, the port in decimal), which is the path up to the end of the
\* port when the path is written that way; on a miss and on a hit alike.
C10_UrlIsCanonicalKey ==
    \A t \in Threads :
        (Returned(t) /\ result[t].ok /\ SchemeOf(path[t]) # S_file)
        => /\ result[t].val.url =
                SchemeOf(path[t]) \o <<":","/","/">> \o HostText(path[t]) \o <<":">> \o
                DecString(DecValue(PortText(path[t])))
           /\ Normalised(path[t])
              => /\ StartsWith(path[t], result[t].val.url)
                 /\ Tail2(path[t], Len(result[t].val.url)) = <<>>
                    \/ Tail2(path[t], Len(result[t].val.url))[1] \in AuthorityEnd
           /\ path[t] = P_example => result[t].val.url = K_example

C10_Witness ==
    \E t \in Threads :
        /\ Returned(t) /\ result[t].ok /\ hit[t]
        /\ path[t] = P_example
        /\ result[t].val.url = K_example

\* C11: registries built by new_from over one map share connections: a get
\* that finds its key in the shared map (put there through either registry, or
\* already in the injected map) succeeds with the map's handle and calls
\* hdfsBuilderConnect not at all; the registry built by new() shares nothing:
\* its gets leave the shared map alone and return no connection of that map.
C11_RegistriesShareOnlyTheInjectedMap ==
    \A t \in Threads :
        /\ (Returned(t) /\ OnShared(reg[t]) /\ hit[t])
           => /\ result[t].ok
              /\ result[t].val = map_before[t][Key(t)]
              /\ ConnectsBy(t) = {}
        /\ (Returned(t) /\ reg[t] = R_own /\ result[t].ok)
           => /\ result[t].val = own_fs[Key(t)]
              /\ \A k \in DOMAIN all_fs : all_fs[k].raw # result[t].val.raw

\* C12: the map of a registry built by new() starts empty and only grows: no
\* step removes a key or changes the handle a key maps to, and a step that
\* changes the map is the end of a get that found its key absent and whose
\* hdfsBuilderConnect gave a handle that is not null; it adds that one key.
C12_MapOnlyGrows ==
    /\ all_fs = EmptyMap
    /\ [][ /\ \A k \in DOMAIN all_fs : k \in DOMAIN all_fs' /\ all_fs'[k] = all_fs[k]
           /\ all_fs' # all_fs
              => \E t \in Threads :
                    /\ pc[t] = "connected" /\ pc'[t] = "done"
                    /\ Key(t) \notin DOMAIN all_fs
                    /\ ~hit[t]
                    /\ hdfs_fs[t] # NULL
                    /\ result'[t].ok
                    /\ DOMAIN all_fs' = DOMAIN all_fs \cup {Key(t)} ]_vars

C12_Witness ==
    /\ Cardinality(DOMAIN all_fs) = 2
    /\ \E t \in Threads :
        /\ Returned(t) /\ result[t].ok /\ ~hit[t]
        /\ DOMAIN map_before[t] # {}
        /\ \A k \in DOMAIN map_before[t] : all_fs[k] = map_before[t][k]

\* C13: a get that has returned has failed exactly when its path did not
\* resolve or a hdfsBuilderConnect it called itself returned null; in the
\* first case the error is InvalidUrl carrying the path as given, in the second
\* it is CannotConnectToNameNode carrying the key, and there is no third error.
C13_TwoTypedErrors ==
    \A t \in Threads :
        Returned(t)
        => LET resolves == Resolved[path[t]].ok
               null_connect == \E i \in ConnectsBy(t) : connect_log[i].fs = NULL
           IN  /\ result[t].ok <=> (resolves /\ ~null_connect)
               /\ result[t].ok => result[t].err = NoErr
               /\ ~result[t].ok
                  => result[t].err.kind \in {"InvalidUrl", "CannotConnectToNameNode"}
               /\ result[t].err.kind = "InvalidUrl" <=> ~resolves
               /\ result[t].err.kind = "InvalidUrl" => result[t].err = InvalidUrl(path[t])
               /\ result[t].err.kind = "CannotConnectToNameNode"
                  <=> (resolves /\ null_connect)
               /\ result[t].err.kind = "CannotConnectToNameNode"
                  => result[t].err = CannotConnectToNameNode(KeyOf(path[t]))

C13_Witness ==
    \E t \in Threads :
        /\ Returned(t) /\ path[t] = P_port2
        /\ result[t].err = CannotConnectToNameNode(KeyOf(P_port2))
        /\ \E i \in DOMAIN connect_log :
              /\ connect_log[i].nn.tag = "Local"
              /\ connect_log[i].fs = NULL

\* C14: a get that finds its key in the map succeeds and returns the handle
\* the map holds, whatever hdfsBuilderConnect answers; so a get that returns
\* CannotConnectToNameNode found its key absent.
C14_CachedKeyAlwaysSucceeds ==
    \A t \in Threads :
        /\ (Returned(t) /\ hit[t])
           => /\ result[t].ok
              /\ result[t].val = map_before[t][Key(t)]
        /\ (Returned(t) /\ result[t].err.kind = "CannotConnectToNameNode")
           => Key(t) \notin DOMAIN all_fs

\* C15: the lock covers lookup, connect and insert as one critical section:
\* the threads between lookup and return are the lock's holder and nobody
\* else, the map is still as the holder found it, and while one thread is in
\* there no other thread looks the map up: a thread that resolved its path,
\* to whatever endpoint, stays where it is.
C15_OneGetInsideTheLock ==
    /\ [](\A t \in Threads :
            /\ Inside(t) <=> lock = t
            /\ Inside(t) => all_fs = map_before[t])
    /\ [][ \A t, u \in Threads :
             (Inside(t) /\ u # t)
             => /\ pc[u] = "resolved" => pc'[u] = "resolved"
                /\ pc'[u] # "locked"
                /\ pc'[u] # "idle"
                   => (hit'[u] = hit[u] /\ map_before'[u] = map_before[u]) ]_vars

C15_Witness ==
    \E t, u \in Threads :
        /\ pc[t] = "connected" /\ ~hit[t] /\ hdfs_fs[t] # NULL
        /\ pc[u] = "resolved" /\ Key(u) # Key(t)
        /\ call_id[u] < call_id[t]
        /\ lock = t

\* the empty path, which Url::parse rejects
P_empty == <<>>

\* C16: get resolves its path before it touches the mutex: a get of a path
\* that does not resolve can be called and returns whoever holds the lock, and
\* it returns InvalidUrl in the one step of the call, which neither takes nor
\* waits for the lock and does not look at the map.
C16_FailedResolutionNeedsNoLock ==
    /\ [](\A t \in Threads :
            (pc[t] = "idle" /\ ncalls < MaxCalls) => ENABLED Call(t, P_empty))
    /\ [][ \A t \in Threads :
             (pc[t] = "idle" /\ pc'[t] # "idle" /\ ~get_namenode(path'[t]).ok)
             => /\ pc'[t] = "done"
                /\ result'[t] = ErrFs(InvalidUrl(path'[t]))
                /\ lock' = lock
                /\ hit'[t] = hit[t]
                /\ map_before'[t] = map_before[t] ]_vars

C16_Witness ==
    \E t, u \in Threads :
        /\ pc[u] = "locked" /\ lock = u
        /\ Returned(t) /\ path[t] = P_noport
        /\ result[t] = ErrFs(InvalidUrl(P_noport))
        /\ call_id[u] < call_id[t]

\* C17: every entry of the map is a handle made from a connection that is not
\* null and carries the key it is stored under as its url, and so is every
\* handle a get has returned.
C17_EntriesAreValidAndTagged ==
    /\ \A k \in DOMAIN all_fs :
          /\ all_fs[k].raw # NULL
          /\ all_fs[k].url = k
    /\ \A t \in Threads :
          (Returned(t) /\ result[t].ok)
          => /\ result[t].val.raw # NULL
             /\ result[t].val.url = Key(t)

C17_Witness ==
    /\ DOMAIN all_fs = {K_local}
    /\ FailedFor(K_local) # {}
    /\ \E t \in Threads :
          /\ Returned(t) /\ result[t].ok
          /\ result[t].val.url = K_local /\ result[t].val.raw # NULL

\* C18: endpoints that differ have keys that differ, and the key of Local is
\* the key of no Remote endpoint; the entries of the map under different keys
\* are different native connections, and a get returns a connection that the
\* map holds under no key but its own.
C18_DistinctEndpointsDistinctConnections ==
    /\ \A i, j \in DOMAIN connect_log :
          connect_log[i].nn # connect_log[j].nn
          => to_string(connect_log[i].nn) # to_string(connect_log[j].nn)
    /\ \A i \in DOMAIN connect_log :
          connect_log[i].nn.tag = "Remote"
          => to_string(connect_log[i].nn) # to_string(Local)
    /\ \A k1, k2 \in DOMAIN all_fs :
          k1 # k2 => all_fs[k1].raw # all_fs[k2].raw
    /\ \A t \in Threads :
          (Returned(t) /\ result[t].ok)
          => \A k \in DOMAIN all_fs \ {Key(t)} : all_fs[k].raw # result[t].val.raw

C18_Witness ==
    \E t \in Threads :
        /\ Returned(t) /\ result[t].ok
        /\ path[t] \in {P_port2, P_viewfs, P_nn2, P_file_tmp}
        /\ K_example \in DOMAIN all_fs
        /\ Key(t) # K_example
        /\ result[t].val.raw # all_fs[K_example].raw

\* C19: a get that has returned, with a handle or with an error, holds the lock
\* no more, and the mutex is free whenever no thread is between lookup and
\* return; so with fair scheduling and connects that return, every get that
\* has resolved its path returns.
C19_EveryGetReturns ==
    /\ [](\A t \in Threads : Returned(t) => lock # t)
    /\ []((\A t \in Threads : ~Inside(t)) => lock = 0)
    /\ \A t \in Threads : (pc[t] = "resolved") ~> Returned(t)

C19_Witness ==
    \E t, u \in Threads :
        /\ Returned(t) /\ result[t].err.kind = "CannotConnectToNameNode"
        /\ u \in waiting[t]
        /\ Returned(u) /\ result[u].ok
        /\ lock = 0

====
